---- MODULE Spec2Model ----
(***************************************************************************)
(* Model of the barrier example script examples/barriers/arm_ur5.py (a UR5 *)
(* arm tracking a moving target under two control barrier functions) and   *)
(* of the barrier unit tests tests/test_barrier.py.                        *)
(*                                                                         *)
(* Units.  Python floats are modelled in fixed point:                      *)
(*   time          milliseconds            (TimeScale ticks per second)    *)
(*   joint angles  1e-8 rad                (q_ref is exact in this unit)   *)
(*   velocities    1e-8 rad / s                                            *)
(*   lengths       micrometres                                             *)
(* Float rounding of the repeated t += dt is not modelled.                 *)
(***************************************************************************)
EXTENDS Integers, Sequences, FiniteSets, TLC

VARIABLES
    \* ---- environment of the script
    importOutcome,      \* what importing robot_descriptions does
    isMain,             \* __name__ == "__main__"
    availableSolvers,   \* qpsolvers.available_solvers
    fk_ref,             \* pose of ee_link at q_ref (forward kinematics, opaque)
    \* ---- state of the script
    pc,                 \* position in the script
    error,              \* the exception that ended the script, or NoError
    robot,              \* robot description loaded (line 29)
    viz,                \* visualizer started (line 30)
    q,                  \* configuration.q
    ee_target,          \* end_effector_task.transform_target_to_world
    posture_target,     \* posture_task.target_q
    solver,             \* selected QP solver
    solve_args,         \* arguments of the last solve_ik call
    velocity,           \* last value returned by solve_ik
    t,                  \* loop time
    viewer,             \* what the visualization client has been sent last
    printed,            \* number of report blocks printed
    \* ---- observation of the run (no counterpart in the script)
    k,                  \* iterations completed
    nIntegrations,      \* calls of integrate_inplace completed
    steps,              \* calls made so far in the current iteration, in order
    snapshot,           \* configuration, time and display at the iteration start
    \* ---- barrier unit tests
    test_pc,            \* position of the test runner
    nv,                 \* robot.nv of the model under test
    kin,                \* kinematic quantities of the frame under test (opaque)
    conf,               \* self.conf built by setUp
    last,               \* values computed by the test that ran last
    verdict             \* outcome of each test method

loopVars == <<importOutcome, isMain, availableSolvers, fk_ref, pc, error, robot,
              viz, q, ee_target, posture_target, solver, solve_args, velocity, t,
              viewer, printed, k, nIntegrations, steps, snapshot>>
testVars == <<test_pc, nv, kin, conf, last, verdict>>
vars == <<importOutcome, isMain, availableSolvers, fk_ref, pc, error, robot,
          viz, q, ee_target, posture_target, solver, solve_args, velocity, t,
          viewer, printed, k, nIntegrations, steps, snapshot,
          test_pc, nv, kin, conf, last, verdict>>

(***************************************************************************)
(* Bounds of the model.                                                    *)
(***************************************************************************)
MaxIter == 4        \* iterations of the control loop explored
MaxNv == 3          \* largest velocity dimension of a model under test
MaxWeight == 2      \* largest normalisation weight of the barrier objective

(***************************************************************************)
(* Constants of the program.                                               *)
(***************************************************************************)
Frequency == 200            \* RateLimiter(frequency=200.0)
TimeScale == 1000           \* ticks of t per second
NQ == 6                     \* joints of the UR5 (length of q_ref)
TestRateHz == 1000          \* 1 / self.dt of the tests, dt = 1e-3 s

q_ref == <<127153374, -87988708, 189104795, 173996951, -24610945, -74979019>>

\* rate.period of the rate limiter, in ticks of t
period == TimeScale \div Frequency

ZeroVec(n) == [i \in 1..n |-> 0]
AllZeroVec(v) == \A i \in DOMAIN v : v[i] = 0
AllZeroMat(m) == \A i \in DOMAIN m : AllZeroVec(m[i])

NoError == [type |-> "none", msg |-> "", cause |-> "none", origin |-> "none"]
NoPose == [translation |-> <<0, 0, 0>>, rotation |-> "unset"]
NoFrame == [frame |-> "none", q |-> <<>>]
NoViewer == [end_effector_target |-> NoPose, end_effector |-> NoFrame,
             robot_q |-> <<>>, frames |-> {}]
NoSnapshot == [q |-> <<>>, t |-> 0, viewer |-> NoViewer]
NoLast == [test |-> "none"]

\* The message of the translated import error (its double backquotes left out).
InstallHint == "Examples need robot_descriptions, try pip install robot_descriptions"

(***************************************************************************)
(* Objects built by the script before the loop.                            *)
(***************************************************************************)
end_effector_task == [frame |-> "ee_link", position_cost |-> 50,
                      orientation_cost |-> 1, lm_damping |-> 100]

\* PositionBarrier("ee_link", indices=[1], max=[0.6], gain=[100.0], r=1.0)
pos_cbf == [kind |-> "PositionBarrier", frame |-> "ee_link", indices |-> <<1>>,
            max |-> <<600000>>, gain |-> <<100>>, r |-> 1]

\* ConfigurationBarrier(robot.model, gain=1, r=100.0)
configuration_cbf == [kind |-> "ConfigurationBarrier", gain |-> 1, r |-> 100]

cbf_list == <<pos_cbf, configuration_cbf>>

NoSolveArgs == [q |-> <<>>, ee_target |-> NoPose, posture_target |-> <<>>,
                dt |-> 0, solver |-> "none", cbfs |-> <<>>,
                use_position_limit |-> TRUE]

(***************************************************************************)
(* Values the environment can supply.                                      *)
(***************************************************************************)
ImportOutcomes == {"ok", "module_not_found", "other_error"}
SolverLists == {<<>>, <<"osqp">>, <<"quadprog">>, <<"quadprog", "osqp">>}

\* Poses forward kinematics may give for ee_link at q_ref.
ReferencePoses == {[translation |-> <<x, y, 300000>>, rotation |-> "R_ref"] :
                       x \in {400000}, y \in {-100000, 100000}}

\* Joint velocities the solver may return: at most one joint moves, and it
\* is the shoulder pan or the shoulder lift joint.
Speeds == {-1000000, 0, 1000000}
MovingJoints == {1, 2}
Velocities == {v \in [1..NQ -> Speeds] :
                   /\ \A i \in 1..NQ : v[i] # 0 => i \in MovingJoints
                   /\ Cardinality({i \in 1..NQ : v[i] # 0}) <= 1}

(***************************************************************************)
(* Pure functions of the script.                                           *)
(***************************************************************************)
\* sin(x) for x in microradians, result in 1e-6: x - x^3/6, each product
\* kept inside 32 bits.
SinMicro(x) == x - ((((x * x) \div 1000000) * x) \div 6000000)

\* 0.0 + 0.7 * np.sin(t / 2), t in ticks, result in micrometres.
TargetY(time) == (7 * SinMicro((time * 1000000) \div (2 * TimeScale))) \div 10

TargetZ == 200000

\* end_effector_target.translation[1] = ...; translation[2] = 0.2
\* Faulty variant: the target is computed for t = 0 in every iteration.
Retarget_stale(pose, time) ==
    [pose EXCEPT !.translation = [@ EXCEPT ![2] = TargetY(0), ![3] = TargetZ]]
Retarget(pose, time) ==
    [pose EXCEPT !.translation = [@ EXCEPT ![2] = TargetY(time), ![3] = TargetZ]]

\* configuration.integrate_inplace(velocity, dt) on a fixed-base revolute arm
IntegrateQ(q0, v, dt) ==
    [i \in 1..NQ |-> q0[i] + ((v[i] * dt) \div TimeScale)]

\* configuration.get_transform_frame_to_world(frame): the pose of the frame
\* at the configuration, kept symbolic.
FrameToWorld(q0, frame) == [frame |-> frame, q |-> q0]

\* solver = available_solvers[0]; if "osqp" in available_solvers: "osqp"
SelectedSolver(avail) ==
    IF \E i \in 1..Len(avail) : avail[i] = "osqp" THEN "osqp" ELSE avail[1]

\* The condition of the loop: while True
\* Faulty variant: a loop that stops after its first iteration.
LoopCondition_bounded == t < period
LoopCondition == TRUE

IterationOrder == <<"update_target", "set_transform_target",
                    "set_transform_end_effector", "solve_ik",
                    "integrate_inplace", "report", "display", "sleep">>

(***************************************************************************)
(* The script, one action per statement group.                             *)
(***************************************************************************)
TestIdle ==
    /\ test_pc = "not_run"
    /\ nv = 0
    /\ kin = [none |-> TRUE]
    /\ conf = [none |-> TRUE]
    /\ last = NoLast
    /\ verdict = [m \in {} |-> "none"]

Init ==
    /\ importOutcome \in ImportOutcomes
    /\ isMain \in BOOLEAN
    /\ availableSolvers \in SolverLists
    /\ fk_ref \in ReferencePoses
    /\ pc = "import_loader"
    /\ error = NoError
    /\ robot = FALSE
    /\ viz = FALSE
    /\ q = <<>>
    /\ ee_target = NoPose
    /\ posture_target = <<>>
    /\ solver = "none"
    /\ solve_args = NoSolveArgs
    /\ velocity = <<>>
    /\ t = 0
    /\ viewer = NoViewer
    /\ printed = 0
    /\ k = 0
    /\ nIntegrations = 0
    /\ steps = <<>>
    /\ snapshot = NoSnapshot
    /\ TestIdle

\* An exception leaves the script: nothing after the raising statement runs.
Raise(exc) ==
    /\ pc' = "raised"
    /\ error' = exc

\* try: from robot_descriptions.loaders.pinocchio import load_robot_description
\* except ModuleNotFoundError as exc: raise ModuleNotFoundError(hint) from exc
\* Faulty variant: the import error is swallowed and the script goes on.
ImportLoader_swallow ==
    /\ pc = "import_loader"
    /\ pc' = IF isMain THEN "load_robot" ELSE "done"
    /\ UNCHANGED <<importOutcome, isMain, availableSolvers, fk_ref, error, robot,
                   viz, q, ee_target, posture_target, solver, solve_args,
                   velocity, t, viewer, printed, k, nIntegrations, steps,
                   snapshot, testVars>>
ImportLoader ==
    /\ pc = "import_loader"
    /\ \/ /\ importOutcome = "ok"
          /\ pc' = IF isMain THEN "load_robot" ELSE "done"
          /\ UNCHANGED error
       \/ /\ importOutcome = "module_not_found"
          /\ Raise([type |-> "ModuleNotFoundError", msg |-> InstallHint,
                    cause |-> "ModuleNotFoundError", origin |-> "import"])
       \/ /\ importOutcome = "other_error"
          /\ Raise([type |-> "ImportError", msg |-> "", cause |-> "none",
                    origin |-> "import"])
    /\ UNCHANGED <<importOutcome, isMain, availableSolvers, fk_ref, robot, viz, q,
                   ee_target, posture_target, solver, solve_args, velocity, t,
                   viewer, printed, k, nIntegrations, steps, snapshot, testVars>>

\* robot = load_robot_description("ur5_description", root_joint=None)
LoadRobot ==
    /\ pc = "load_robot"
    /\ robot' = TRUE
    /\ pc' = "start_viz"
    /\ UNCHANGED <<importOutcome, isMain, availableSolvers, fk_ref, error, viz, q,
                   ee_target, posture_target, solver, solve_args, velocity, t,
                   viewer, printed, k, nIntegrations, steps, snapshot, testVars>>

\* viz = start_meshcat_visualizer(robot)
StartVisualizer ==
    /\ pc = "start_viz"
    /\ viz' = TRUE
    /\ pc' = "build"
    /\ UNCHANGED <<importOutcome, isMain, availableSolvers, fk_ref, error, robot,
                   q, ee_target, posture_target, solver, solve_args, velocity, t,
                   viewer, printed, k, nIntegrations, steps, snapshot, testVars>>

\* tasks, barriers, configuration = pink.Configuration(model, data, q_ref),
\* task.set_target_from_configuration(configuration) for both tasks
BuildProblem ==
    /\ pc = "build"
    /\ q' = q_ref
    /\ ee_target' = fk_ref
    /\ posture_target' = q_ref
    /\ pc' = "first_display"
    /\ UNCHANGED <<importOutcome, isMain, availableSolvers, fk_ref, error, robot,
                   viz, solver, solve_args, velocity, t, viewer, printed, k,
                   nIntegrations, steps, snapshot, testVars>>

\* viz.display(configuration.q); meshcat_shapes.frame(viewer["end_effector_target"])
FirstDisplay ==
    /\ pc = "first_display"
    /\ viewer' = [viewer EXCEPT !.robot_q = q,
                                !.frames = @ \cup {"end_effector_target"}]
    /\ pc' = "select_solver"
    /\ UNCHANGED <<importOutcome, isMain, availableSolvers, fk_ref, error, robot,
                   viz, q, ee_target, posture_target, solver, solve_args,
                   velocity, t, printed, k, nIntegrations, steps, snapshot,
                   testVars>>

\* solver = qpsolvers.available_solvers[0]; "osqp" when it is available
SelectSolver ==
    /\ pc = "select_solver"
    /\ \/ /\ Len(availableSolvers) > 0
          /\ solver' = SelectedSolver(availableSolvers)
          /\ pc' = "start_clock"
          /\ UNCHANGED error
       \/ /\ Len(availableSolvers) = 0
          /\ Raise([type |-> "IndexError", msg |-> "", cause |-> "none",
                    origin |-> "available_solvers"])
          /\ UNCHANGED solver
    /\ UNCHANGED <<importOutcome, isMain, availableSolvers, fk_ref, robot, viz, q,
                   ee_target, posture_target, solve_args, velocity, t, viewer,
                   printed, k, nIntegrations, steps, snapshot, testVars>>

\* rate = RateLimiter(frequency=200.0); dt = rate.period; t = 0.0
StartClock ==
    /\ pc = "start_clock"
    /\ t' = 0
    /\ pc' = "update_target"
    /\ UNCHANGED <<importOutcome, isMain, availableSolvers, fk_ref, error, robot,
                   viz, q, ee_target, posture_target, solver, solve_args,
                   velocity, viewer, printed, k, nIntegrations, steps, snapshot,
                   testVars>>

\* end_effector_target = end_effector_task.transform_target_to_world (the
\* task's own object), translation[1] and translation[2] assigned in place
UpdateTarget ==
    /\ pc = "update_target"
    /\ ee_target' = Retarget(ee_target, t)
    /\ steps' = <<"update_target">>
    /\ snapshot' = [q |-> q, t |-> t, viewer |-> viewer]
    /\ pc' = "set_transform_target"
    /\ UNCHANGED <<importOutcome, isMain, availableSolvers, fk_ref, error, robot,
                   viz, q, posture_target, solver, solve_args, velocity, t,
                   viewer, printed, k, nIntegrations, testVars>>

\* viewer["end_effector_target"].set_transform(end_effector_target.np)
SetTargetTransform ==
    /\ pc = "set_transform_target"
    /\ viewer' = [viewer EXCEPT !.end_effector_target = ee_target]
    /\ steps' = Append(steps, "set_transform_target")
    /\ pc' = "set_transform_end_effector"
    /\ UNCHANGED <<importOutcome, isMain, availableSolvers, fk_ref, error, robot,
                   viz, q, ee_target, posture_target, solver, solve_args,
                   velocity, t, printed, k, nIntegrations, snapshot, testVars>>

\* viewer["end_effector"].set_transform(
\*     configuration.get_transform_frame_to_world(end_effector_task.frame).np)
SetEndEffectorTransform ==
    /\ pc = "set_transform_end_effector"
    /\ viewer' = [viewer EXCEPT
                     !.end_effector = FrameToWorld(q, end_effector_task.frame)]
    /\ steps' = Append(steps, "set_transform_end_effector")
    /\ pc' = "solve_ik"
    /\ UNCHANGED <<importOutcome, isMain, availableSolvers, fk_ref, error, robot,
                   viz, q, ee_target, posture_target, solver, solve_args,
                   velocity, t, printed, k, nIntegrations, snapshot, testVars>>

\* velocity = solve_ik(configuration, tasks, dt, solver=solver, cbfs=cbf_list,
\*                     use_position_limit=False): any velocity, or an exception
\* that nothing in the script catches
\* Faulty variant: a solver failure is caught, a zero velocity is used instead.
SolveIk_caught ==
    /\ pc = "solve_ik"
    /\ solve_args' = [q |-> q, ee_target |-> ee_target,
                      posture_target |-> posture_target, dt |-> period,
                      solver |-> solver, cbfs |-> cbf_list,
                      use_position_limit |-> FALSE]
    /\ steps' = Append(steps, "solve_ik")
    /\ \/ /\ velocity' \in Velocities
          /\ pc' = "integrate_inplace"
          /\ UNCHANGED error
       \/ /\ velocity' = ZeroVec(NQ)
          /\ error' = [type |-> "SolverFailure", msg |-> "", cause |-> "none",
                       origin |-> "solve_ik"]
          /\ pc' = "integrate_inplace"
    /\ UNCHANGED <<importOutcome, isMain, availableSolvers, fk_ref, robot, viz, q,
                   ee_target, posture_target, solver, t, viewer, printed, k,
                   nIntegrations, snapshot, testVars>>
SolveIk ==
    /\ pc = "solve_ik"
    /\ solve_args' = [q |-> q, ee_target |-> ee_target,
                      posture_target |-> posture_target, dt |-> period,
                      solver |-> solver, cbfs |-> cbf_list,
                      use_position_limit |-> FALSE]
    /\ steps' = Append(steps, "solve_ik")
    /\ \/ /\ velocity' \in Velocities
          /\ pc' = "integrate_inplace"
          /\ UNCHANGED error
       \/ /\ Raise([type |-> "SolverFailure", msg |-> "", cause |-> "none",
                    origin |-> "solve_ik"])
          /\ UNCHANGED velocity
    /\ UNCHANGED <<importOutcome, isMain, availableSolvers, fk_ref, robot, viz, q,
                   ee_target, posture_target, solver, t, viewer, printed, k,
                   nIntegrations, snapshot, testVars>>

\* configuration.integrate_inplace(velocity, dt)
Integrate ==
    /\ pc = "integrate_inplace"
    /\ q' = IntegrateQ(q, velocity, period)
    /\ nIntegrations' = nIntegrations + 1
    /\ steps' = Append(steps, "integrate_inplace")
    /\ pc' = "report"
    /\ UNCHANGED <<importOutcome, isMain, availableSolvers, fk_ref, error, robot,
                   viz, ee_target, posture_target, solver, solve_args, velocity,
                   t, viewer, printed, k, snapshot, testVars>>

\* Faulty variant: the report step integrates the velocity a second time.
Report_integrates ==
    /\ pc = "report"
    /\ q' = IntegrateQ(q, velocity, period)
    /\ printed' = printed + 1
    /\ steps' = Append(steps, "report")
    /\ pc' = "display"
    /\ UNCHANGED <<importOutcome, isMain, availableSolvers, fk_ref, error, robot,
                   viz, ee_target, posture_target, solver, solve_args, velocity,
                   t, viewer, k, nIntegrations, snapshot, testVars>>
\* G, h = pos_cbf.compute_qp_inequality(configuration, dt=dt) and the five
\* print calls: evaluations of the barriers and of the task error
Report ==
    /\ pc = "report"
    /\ printed' = printed + 1
    /\ steps' = Append(steps, "report")
    /\ pc' = "display"
    /\ UNCHANGED <<importOutcome, isMain, availableSolvers, fk_ref, error, robot,
                   viz, q, ee_target, posture_target, solver, solve_args,
                   velocity, t, viewer, k, nIntegrations, snapshot, testVars>>

\* Faulty variant: the configuration of the iteration's start is displayed.
Display_stale ==
    /\ pc = "display"
    /\ viewer' = [viewer EXCEPT !.robot_q = snapshot.q]
    /\ steps' = Append(steps, "display")
    /\ pc' = "sleep"
    /\ UNCHANGED <<importOutcome, isMain, availableSolvers, fk_ref, error, robot,
                   viz, q, ee_target, posture_target, solver, solve_args,
                   velocity, t, printed, k, nIntegrations, snapshot, testVars>>
\* viz.display(configuration.q)
Display ==
    /\ pc = "display"
    /\ viewer' = [viewer EXCEPT !.robot_q = q]
    /\ steps' = Append(steps, "display")
    /\ pc' = "sleep"
    /\ UNCHANGED <<importOutcome, isMain, availableSolvers, fk_ref, error, robot,
                   viz, q, ee_target, posture_target, solver, solve_args,
                   velocity, t, printed, k, nIntegrations, snapshot, testVars>>

\* rate.sleep()
Sleep ==
    /\ pc = "sleep"
    /\ steps' = Append(steps, "sleep")
    /\ pc' = "advance"
    /\ UNCHANGED <<importOutcome, isMain, availableSolvers, fk_ref, error, robot,
                   viz, q, ee_target, posture_target, solver, solve_args,
                   velocity, t, viewer, printed, k, nIntegrations, snapshot,
                   testVars>>

\* t += dt, then the loop condition is evaluated again
Advance ==
    /\ pc = "advance"
    /\ k < MaxIter
    /\ t' = t + period
    /\ k' = k + 1
    /\ pc' = IF LoopCondition THEN "update_target" ELSE "done"
    /\ UNCHANGED <<importOutcome, isMain, availableSolvers, fk_ref, error, robot,
                   viz, q, ee_target, posture_target, solver, solve_args,
                   velocity, viewer, printed, nIntegrations, steps, snapshot,
                   testVars>>

Next ==
    \/ ImportLoader
    \/ LoadRobot
    \/ StartVisualizer
    \/ BuildProblem
    \/ FirstDisplay
    \/ SelectSolver
    \/ StartClock
    \/ UpdateTarget
    \/ SetTargetTransform
    \/ SetEndEffectorTransform
    \/ SolveIk
    \/ Integrate
    \/ Report
    \/ Display
    \/ Sleep
    \/ Advance

Spec == Init /\ [][Next]_vars

\* One thread runs the script: every call returns or raises, so a step that
\* can be taken is taken.
FairSpec == Spec /\ WF_vars(Next)

(***************************************************************************)
(* Properties of the control loop.                                         *)
(***************************************************************************)
LoopPcs == {"update_target", "set_transform_target",
            "set_transform_end_effector", "solve_ik", "integrate_inplace",
            "report", "display", "sleep", "advance"}

\* The call named step has been made in the current iteration.
Made(step) == \E i \in 1..Len(steps) : steps[i] = step

\* The target the loop gives the end-effector task in the iteration at time.
TargetAt(time) ==
    [fk_ref EXCEPT !.translation = [@ EXCEPT ![2] = TargetY(time), ![3] = TargetZ]]

EmitSteps == {"set_transform_target", "set_transform_end_effector", "display"}

\* C2 as stated: every pose sent to the visualizer in an iteration is sent
\* after that iteration's integration and reflects the updated configuration.
C2_Original_EmitAfterIntegration ==
    /\ \A i \in 1..Len(steps) :
           steps[i] \in EmitSteps =>
               \E j \in 1..(i - 1) : steps[j] = "integrate_inplace"
    /\ (pc \in {"sleep", "advance"}) =>
           viewer.end_effector = FrameToWorld(q, end_effector_task.frame)

\* C2 (amended): the calls of an iteration are made in the order update of
\* the target, set_transform of the target frame, set_transform of the
\* end-effector frame, solve_ik, integrate_inplace, report, display, sleep.
\* The two frame transforms are sent before the solve and show the target of
\* this iteration and the end-effector pose before this iteration's
\* integration; solve_ik gets the configuration, targets, barriers and dt of
\* the iteration; only viz.display comes after the integration and shows
\* the integrated configuration.
C2_IterationOrder ==
    pc \in LoopPcs =>
        /\ \/ steps = <<>> /\ pc = "update_target"
           \/ steps = IterationOrder /\ pc \in {"advance", "update_target"}
           \/ /\ Len(steps) < Len(IterationOrder)
              /\ steps = SubSeq(IterationOrder, 1, Len(steps))
              /\ pc = IterationOrder[Len(steps) + 1]
        /\ (pc # "update_target" /\ Made("set_transform_target")) =>
               viewer.end_effector_target = ee_target
        /\ (pc # "update_target" /\ Made("set_transform_end_effector")) =>
               viewer.end_effector
                   = FrameToWorld(snapshot.q, end_effector_task.frame)
        /\ (pc # "update_target" /\ Made("solve_ik")) =>
               solve_args = [q |-> snapshot.q, ee_target |-> ee_target,
                             posture_target |-> posture_target,
                             dt |-> period, solver |-> solver,
                             cbfs |-> cbf_list, use_position_limit |-> FALSE]
        /\ (pc # "update_target" /\ Made("integrate_inplace")) =>
               q = IntegrateQ(snapshot.q, velocity, period)
        /\ (pc # "update_target" /\ Made("display")) =>
               /\ viewer.robot_q = q
               /\ viewer.end_effector_target = ee_target
        /\ (pc # "update_target" /\ ~Made("display")) =>
               viewer.robot_q = snapshot.viewer.robot_q

C2_Witness ==
    /\ pc = "advance"
    /\ k >= 1
    /\ steps = IterationOrder
    /\ q # snapshot.q
    /\ viewer.end_effector # FrameToWorld(q, end_effector_task.frame)

\* C3 as stated: once the loop is entered the script stays in it.
C3_Original_LoopNeverStops ==
    (k > 0 \/ steps # <<>>) => pc \in LoopPcs

\* C3 (amended): the loop has no termination condition.  From inside the
\* loop the script only goes on in the loop or is ended by an exception
\* leaving a call of the body; it never finishes normally, and an iteration
\* whose calls all return is followed by the start of the next one.
C3_NoNormalExit ==
    /\ [][(pc \in LoopPcs) => (pc' \in LoopPcs \/ pc' = "raised")]_vars
    /\ [](pc = "done" => (k = 0 /\ steps = <<>>))
    /\ \A n \in 0..(MaxIter - 1) :
           (pc \in LoopPcs /\ k = n) ~> (pc = "raised" \/ k = n + 1)

C3_Witness ==
    /\ pc = "update_target"
    /\ k >= 2
    /\ error = NoError

\* C7: when the robot_descriptions loader is missing the script ends at the
\* import with ModuleNotFoundError carrying the install hint and chained to
\* the original error; no robot is loaded, no visualizer is started and the
\* loop is never entered.
C7_MissingLoaderStopsScript ==
    importOutcome = "module_not_found" =>
        /\ pc \in {"import_loader", "raised"}
        /\ pc = "raised" =>
               error = [type |-> "ModuleNotFoundError", msg |-> InstallHint,
                        cause |-> "ModuleNotFoundError", origin |-> "import"]
        /\ pc = "import_loader" => error = NoError
        /\ ~robot
        /\ ~viz
        /\ q = <<>>
        /\ viewer = NoViewer
        /\ steps = <<>>
        /\ k = 0
        /\ nIntegrations = 0

C7_Witness ==
    /\ importOutcome = "module_not_found"
    /\ isMain
    /\ pc = "raised"
    /\ error.msg = InstallHint

\* C8: a failure of solve_ik is not handled.  It ends the script in that
\* iteration before the integrate step: the configuration and t have the
\* values of the iteration's start, the configuration has been integrated
\* once per completed iteration only, nothing is displayed after the
\* failure, and no later iteration runs.
C8_SolveFailureEndsLoop ==
    error.origin = "solve_ik" =>
        /\ pc = "raised"
        /\ steps = SubSeq(IterationOrder, 1, 4)
        /\ q = snapshot.q
        /\ t = snapshot.t
        /\ t = k * period
        /\ nIntegrations = k
        /\ printed = k
        /\ viewer = [snapshot.viewer EXCEPT
                        !.end_effector_target = ee_target,
                        !.end_effector
                            = FrameToWorld(snapshot.q, end_effector_task.frame)]

C8_Witness ==
    /\ error.origin = "solve_ik"
    /\ pc = "raised"
    /\ k >= 1
    /\ q # q_ref

\* C9: inside the loop the configuration is changed by integrate_inplace
\* only, once per iteration, with the velocity solve_ik returned in that
\* iteration; the other steps leave it alone, so that it has been integrated
\* exactly k times, starting from q_ref, after k completed iterations.
C9_ConfigurationChangedOnlyByIntegration ==
    /\ [][(pc \in LoopPcs /\ q' # q) =>
              /\ pc = "integrate_inplace"
              /\ velocity = velocity'
              /\ q' = IntegrateQ(q, velocity, period)]_vars
    /\ [][nIntegrations' # nIntegrations =>
              /\ pc = "integrate_inplace"
              /\ nIntegrations' = nIntegrations + 1]_vars
    /\ [](pc \in LoopPcs =>
              /\ nIntegrations
                     = k + (IF pc \in {"report", "display", "sleep", "advance"}
                            THEN 1 ELSE 0)
              /\ nIntegrations = 0 => q = q_ref
              /\ (pc # "update_target" /\ Made("solve_ik")
                      /\ ~Made("integrate_inplace")) => q = snapshot.q)

C9_Witness ==
    /\ pc = "update_target"
    /\ k >= 2
    /\ nIntegrations = k
    /\ q # q_ref

\* C10: in iteration k the loop time is k * dt, advanced by dt once at the
\* end of an iteration; the end-effector target given to the solver is the
\* pose taken from the initial configuration with translation component 1
\* set to 0.7 * sin(t / 2) and component 2 set to 0.2; translation component
\* 0, the orientation and the posture target are never changed.
C10_TimeAndTarget ==
    /\ [][t' # t => (pc = "advance" /\ t' = t + period /\ k' = k + 1)]_vars
    /\ [](pc \in LoopPcs =>
              /\ t = k * period
              /\ posture_target = q_ref
              /\ ee_target.translation[1] = fk_ref.translation[1]
              /\ ee_target.rotation = fk_ref.rotation
              /\ pc # "update_target" => ee_target = TargetAt(k * period)
              /\ (pc # "update_target" /\ Made("solve_ik")) =>
                     /\ solve_args.ee_target = TargetAt(k * period)
                     /\ solve_args.posture_target = q_ref
                     /\ solve_args.dt = period)

C10_Witness ==
    /\ pc = "integrate_inplace"
    /\ k >= 2
    /\ solve_args.ee_target.translation[2] = TargetY(2 * period)
    /\ solve_args.ee_target.translation[2] > TargetY(period)
    /\ TargetY(period) > 0

(***************************************************************************)
(* The barrier of pink.barriers, as the specification describes it: bounds *)
(* on a frame position, a gain and a safety radius r; a barrier value of   *)
(* length dim, a Jacobian of shape (dim, nv), a QP objective (H, c) over   *)
(* the nv velocities that is zero for r = 0, and a QP inequality (G, h)    *)
(* with dim rows.  Matrices are sequences of rows.                         *)
(***************************************************************************)
IsMatrix(m, rows, cols) ==
    /\ Len(m) = rows
    /\ \A i \in 1..Len(m) : Len(m[i]) = cols

\* PositionBarrier(frame, r=r, p_min=p_min)
PositionBarrier(frame, r, p_min) ==
    [frame |-> frame, indices |-> [i \in 1..Len(p_min) |-> i],
     p_min |-> p_min, gain |-> 1, r |-> r, dim |-> Len(p_min)]

\* barrier.compute_barrier(configuration): position minus lower bound
compute_barrier(b, c) ==
    [i \in 1..b.dim |-> c.position[b.indices[i]] - b.p_min[i]]

\* barrier.compute_jacobian(configuration): rows of the frame Jacobian
compute_jacobian(b, c) ==
    [i \in 1..b.dim |-> c.jacobian[b.indices[i]]]

\* barrier.compute_safe_policy(configuration)
compute_safe_policy(b, c) == c.safe_policy

\* barrier.compute_qp_objective(configuration): r times a positive weight on
\* the distance of the velocity to the safe policy
compute_qp_objective(b, c) ==
    [H |-> [i \in 1..c.nv |->
               [j \in 1..c.nv |-> IF i = j THEN b.r * c.weight ELSE 0]],
     c |-> [i \in 1..c.nv |->
               (0 - 2) * b.r * c.weight * compute_safe_policy(b, c)[i]]]

\* barrier.compute_qp_inequality(configuration, dt): G = -J / dt, h = gain * value
compute_qp_inequality(b, c, rate) ==
    [G |-> [i \in 1..b.dim |->
               [j \in 1..c.nv |-> (0 - compute_jacobian(b, c)[i][j]) * rate]],
     h |-> [i \in 1..b.dim |-> b.gain * compute_barrier(b, c)[i]]]

\* repr(barrier): the fields it shows
BarrierRepr(b) == {"gain=", "safety_policy=", "r="}

(***************************************************************************)
(* tests/test_barrier.py: setUp before every test method, the methods in   *)
(* the runner's (alphabetical) order.                                      *)
(***************************************************************************)
TestOrder == <<"test_barrier_jacobians_dimension", "test_barrier_save_radius",
               "test_barrier_value_dimension",
               "test_barrier_without_save_radius",
               "test_diff_form_dimensions", "test_task_repr">>

UnitRow(n, j) == [i \in 1..n |-> IF i = j THEN 1 ELSE 0]

\* What kinematics may give for the frame under test at the configuration.
Kinematics(n) ==
    [position : {<<0, 0, 0>>, <<1, -1, 2>>},
     jacobian : {<<UnitRow(n, 1), ZeroVec(n), UnitRow(n, n)>>,
                 <<ZeroVec(n), UnitRow(n, n), UnitRow(n, 1)>>},
     safe_policy : {ZeroVec(n), UnitRow(n, n)},
     weight : 1..MaxWeight]

\* The safety radius of a barrier built without r.
DefaultRadii == {0, 1, 3}

LoopIdle ==
    /\ importOutcome = "ok"
    /\ isMain = FALSE
    /\ availableSolvers = <<>>
    /\ fk_ref = NoPose
    /\ pc = "not_run"
    /\ error = NoError
    /\ robot = FALSE
    /\ viz = FALSE
    /\ q = <<>>
    /\ ee_target = NoPose
    /\ posture_target = <<>>
    /\ solver = "none"
    /\ solve_args = NoSolveArgs
    /\ velocity = <<>>
    /\ t = 0
    /\ viewer = NoViewer
    /\ printed = 0
    /\ k = 0
    /\ nIntegrations = 0
    /\ steps = <<>>
    /\ snapshot = NoSnapshot

TestInit ==
    /\ LoopIdle
    /\ nv \in 1..MaxNv
    /\ kin \in Kinematics(nv)
    /\ conf = [none |-> TRUE]
    /\ test_pc = [at |-> "setUp", idx |-> 1]
    /\ last = NoLast
    /\ verdict = [m \in {} |-> "none"]

Outcome(ok) == IF ok THEN "pass" ELSE "fail"

\* The runner records the outcome and goes on to the next method.
Finish(name, ok) ==
    /\ verdict' = [m \in DOMAIN verdict \cup {name} |->
                      IF m = name THEN Outcome(ok) ELSE verdict[m]]
    /\ test_pc' = IF test_pc.idx = Len(TestOrder)
                  THEN [at |-> "finished", idx |-> test_pc.idx]
                  ELSE [at |-> "setUp", idx |-> test_pc.idx + 1]

Running(name) ==
    /\ test_pc.at = "run"
    /\ TestOrder[test_pc.idx] = name

\* self.robot = load_robot_description(...); self.conf = Configuration(
\*     self.robot.model, self.robot.data, q=np.zeros(self.robot.nq))
\* Faulty variant: the configuration is built against a model with one more
\* velocity than self.robot.
setUp_other_model ==
    /\ test_pc.at = "setUp"
    /\ conf' = [nv |-> nv + 1, position |-> kin.position,
                jacobian |-> [i \in 1..3 |-> Append(kin.jacobian[i], 0)],
                safe_policy |-> Append(kin.safe_policy, 0),
                weight |-> kin.weight]
    /\ test_pc' = [test_pc EXCEPT !.at = "run"]
    /\ UNCHANGED <<nv, kin, last, verdict, loopVars>>
setUp ==
    /\ test_pc.at = "setUp"
    /\ conf' = [nv |-> nv, position |-> kin.position,
                jacobian |-> kin.jacobian, safe_policy |-> kin.safe_policy,
                weight |-> kin.weight]
    /\ test_pc' = [test_pc EXCEPT !.at = "run"]
    /\ UNCHANGED <<nv, kin, last, verdict, loopVars>>

test_diff_form_dimensions ==
    /\ Running("test_diff_form_dimensions")
    /\ \E r \in DefaultRadii :
         LET barrier == PositionBarrier("left_hip", r, ZeroVec(3))
             obj == compute_qp_objective(barrier, conf)
             ineq == compute_qp_inequality(barrier, conf, TestRateHz)
         IN  /\ last' = [test |-> "test_diff_form_dimensions",
                         barrier |-> barrier, H |-> obj.H, c |-> obj.c,
                         G |-> ineq.G, h |-> ineq.h]
             /\ Finish("test_diff_form_dimensions",
                       /\ Len(obj.H) = nv
                       /\ Len(obj.H[1]) = nv
                       /\ Len(obj.c) = nv
                       /\ Len(ineq.G) = barrier.dim
                       /\ Len(ineq.G[1]) = nv)
    /\ UNCHANGED <<nv, kin, conf, loopVars>>

test_barrier_value_dimension ==
    /\ Running("test_barrier_value_dimension")
    /\ \E r \in DefaultRadii :
         LET barrier == PositionBarrier("left_hip", r, ZeroVec(3))
             v == compute_barrier(barrier, conf)
         IN  /\ last' = [test |-> "test_barrier_value_dimension",
                         barrier |-> barrier, v |-> v]
             /\ Finish("test_barrier_value_dimension", Len(v) = barrier.dim)
    /\ UNCHANGED <<nv, kin, conf, loopVars>>

test_barrier_jacobians_dimension ==
    /\ Running("test_barrier_jacobians_dimension")
    /\ \E r \in DefaultRadii :
         LET barrier == PositionBarrier("left_hip", r, ZeroVec(3))
             J == compute_jacobian(barrier, conf)
         IN  /\ last' = [test |-> "test_barrier_jacobians_dimension",
                         barrier |-> barrier, J |-> J]
             /\ Finish("test_barrier_jacobians_dimension",
                       Len(J) = barrier.dim /\ Len(J[1]) = nv)
    /\ UNCHANGED <<nv, kin, conf, loopVars>>

\* Faulty variant: the barrier is built with r = 1.
test_barrier_without_save_radius_r1 ==
    /\ Running("test_barrier_without_save_radius")
    /\ LET limit == PositionBarrier("left_hip", 1, ZeroVec(3))
           obj == compute_qp_objective(limit, conf)
       IN  /\ last' = [test |-> "test_barrier_without_save_radius",
                       barrier |-> limit, H |-> obj.H, c |-> obj.c]
           /\ Finish("test_barrier_without_save_radius",
                     AllZeroMat(obj.H) /\ AllZeroVec(obj.c))
    /\ UNCHANGED <<nv, kin, conf, loopVars>>
test_barrier_without_save_radius ==
    /\ Running("test_barrier_without_save_radius")
    /\ LET limit == PositionBarrier("left_hip", 0, ZeroVec(3))
           obj == compute_qp_objective(limit, conf)
       IN  /\ last' = [test |-> "test_barrier_without_save_radius",
                       barrier |-> limit, H |-> obj.H, c |-> obj.c]
           /\ Finish("test_barrier_without_save_radius",
                     AllZeroMat(obj.H) /\ AllZeroVec(obj.c))
    /\ UNCHANGED <<nv, kin, conf, loopVars>>

\* Faulty variant: the barrier is built with r = 0.
test_barrier_save_radius_r0 ==
    /\ Running("test_barrier_save_radius")
    /\ LET limit == PositionBarrier("left_hip", 0, ZeroVec(3))
           obj == compute_qp_objective(limit, conf)
           policy == compute_safe_policy(limit, conf)
       IN  /\ last' = [test |-> "test_barrier_save_radius",
                       barrier |-> limit, H |-> obj.H, c |-> obj.c,
                       safe_policy |-> policy]
           /\ Finish("test_barrier_save_radius",
                     /\ ~AllZeroMat(obj.H)
                     /\ ~AllZeroVec(policy) => ~AllZeroVec(obj.c))
    /\ UNCHANGED <<nv, kin, conf, loopVars>>
test_barrier_save_radius ==
    /\ Running("test_barrier_save_radius")
    /\ LET limit == PositionBarrier("left_hip", 1, ZeroVec(3))
           obj == compute_qp_objective(limit, conf)
           policy == compute_safe_policy(limit, conf)
       IN  /\ last' = [test |-> "test_barrier_save_radius",
                       barrier |-> limit, H |-> obj.H, c |-> obj.c,
                       safe_policy |-> policy]
           /\ Finish("test_barrier_save_radius",
                     /\ ~AllZeroMat(obj.H)
                     /\ ~AllZeroVec(policy) => ~AllZeroVec(obj.c))
    /\ UNCHANGED <<nv, kin, conf, loopVars>>

test_task_repr ==
    /\ Running("test_task_repr")
    /\ LET limit == PositionBarrier("universe", 0, ZeroVec(3))
       IN  /\ last' = [test |-> "test_task_repr", barrier |-> limit,
                       repr |-> BarrierRepr(limit)]
           /\ Finish("test_task_repr",
                     {"gain=", "safety_policy=", "r="} \subseteq BarrierRepr(limit))
    /\ UNCHANGED <<nv, kin, conf, loopVars>>

TestNext ==
    \/ setUp
    \/ test_diff_form_dimensions
    \/ test_barrier_value_dimension
    \/ test_barrier_jacobians_dimension
    \/ test_barrier_without_save_radius
    \/ test_barrier_save_radius
    \/ test_task_repr

TestSpec == TestInit /\ [][TestNext]_vars

====
